---- MODULE Spec2Model ----
(***************************************************************************)
(* Model of the "reminder" secret contract of tutorial2                    *)
(* (src/tutorial2/code/src/contract.rs, state.rs): the byte-oriented       *)
(* key-value backend, the Bincode2 encoding of State and Reminder, the     *)
(* handle operations record / read / generate_viewing_key and the queries  *)
(* stats / authenticated read.                                             *)
(*                                                                         *)
(* Byte strings are sequences of numbers in 0..255.                        *)
(***************************************************************************)
EXTENDS Integers, Sequences, FiniteSets, TLC

VARIABLES
    storage,       \* the durable backend: backend key -> stored bytes
    created,       \* the InitMsg the contract was created with, once it is
    height,        \* the host's current block height
    response,      \* what the last call returned
    writes,        \* history: per sender, the reminders successfully recorded
    issued,        \* history: per sender, the viewing keys returned to it
    recorded       \* history: number of successful record calls since init

vars == <<storage, created, height, response, writes, issued, recorded>>

----------------------------------------------------------------------------
(* Bounds of the model *)

MaxSteps == 3     \* record calls, generate_viewing_key calls and new blocks
MaxCandidates == 2 \* longest candidate list handed to the authentication loop
CanonicalLength == 20 \* the host's fixed canonical-address length

----------------------------------------------------------------------------
(* Byte strings *)

Zeros(n) == [i \in 1..n |-> 0]

\* byte i (from 0, least significant first) of v; v is below 2^31
ByteOf(v, i) ==
    IF i > 3 THEN 0 ELSE (v \div <<1, 256, 65536, 16777216>>[i + 1]) % 256

\* n-byte little-endian encoding of v (bincode's fixed-width integers)
LE(v, n) == [i \in 1..n |-> ByteOf(v, i - 1)]

\* value of a little-endian byte string of at most 4 bytes
UnLE(b) ==
    LET at(i) == IF i <= Len(b) THEN b[i] ELSE 0 IN
    at(1) + 256 * at(2) + 65536 * at(3) + 16777216 * at(4)

\* n-byte big-endian encoding of v
BE(v, n) == [i \in 1..n |-> ByteOf(v, n - i)]

\* the texts the model uses, as UTF-8 bytes
alice == <<97, 108, 105, 99, 101>>
bob == <<98, 111, 98>>
config_name == <<99, 111, 110, 102, 105, 103>>
too_short == <<97, 98>>

----------------------------------------------------------------------------
(* Hashing and text encodings *)

Sha256Len == 32
\* stand-in for the compression of SHA-256: a digest of the whole input,
\* blocks of up to 8 bytes weighted by position and folded pairwise
BlockDigest(b, lo, hi) ==
    LET t(i, w) == IF lo + i <= hi THEN (b[lo + i] + 1) * w ELSE 0 IN
    t(0, 1) + t(1, 257) + t(2, 65543) + t(3, 7919) + t(4, 104729)
    + t(5, 331) + t(6, 499979) + t(7, 15485)

RECURSIVE Absorb(_, _, _)
Absorb(b, lo, hi) ==
    IF lo > hi THEN 0
    ELSE IF hi - lo < 8 THEN BlockDigest(b, lo, hi) % 16777213
    ELSE LET mid == (lo + hi) \div 2 IN
         (Absorb(b, lo, mid) * 31 + Absorb(b, mid + 1, hi) * 17
          + (hi - lo + 1)) % 16777213

sha_256(b) == LE(Absorb(b, 1, Len(b)), 3) \o Zeros(Sha256Len - 3)

HexDigit(n) == IF n < 10 THEN 48 + n ELSE 87 + n

\* lowercase hexadecimal text of a byte string
Hex(b) ==
    [i \in 1..(2 * Len(b)) |->
        IF i % 2 = 1 THEN HexDigit(b[(i + 1) \div 2] \div 16)
        ELSE HexDigit(b[i \div 2] % 16)]

Base64Char(n) ==
    IF n < 26 THEN 65 + n
    ELSE IF n < 52 THEN 71 + n
    ELSE IF n < 62 THEN n - 4
    ELSE IF n = 62 THEN 43 ELSE 47

\* standard base64 with '=' padding
RECURSIVE base64_encode(_)
base64_encode(b) ==
    IF b = <<>> THEN <<>>
    ELSE IF Len(b) = 1 THEN
        <<Base64Char(b[1] \div 4), Base64Char((b[1] % 4) * 16), 61, 61>>
    ELSE IF Len(b) = 2 THEN
        <<Base64Char(b[1] \div 4),
          Base64Char((b[1] % 4) * 16 + b[2] \div 16),
          Base64Char((b[2] % 16) * 4), 61>>
    ELSE
        <<Base64Char(b[1] \div 4),
          Base64Char((b[1] % 4) * 16 + b[2] \div 16),
          Base64Char((b[2] % 16) * 4 + b[3] \div 64),
          Base64Char(b[3] % 64)>> \o base64_encode(SubSeq(b, 4, Len(b)))

----------------------------------------------------------------------------
(* Results and options *)

Ok(v) == [ok |-> TRUE, val |-> v]
Err(e) == [ok |-> FALSE, err |-> e]
Some(v) == [some |-> TRUE, val |-> v]
None == [some |-> FALSE]

----------------------------------------------------------------------------
(* The host: canonical addresses and the key-value backend *)

\* Api::canonical_address: a well-formed address becomes CanonicalLength
\* bytes; a malformed one is an error of the caller
canonical_address(human) ==
    IF Len(human) < 3 THEN Err("generic_err")
    ELSE IF Len(human) > CanonicalLength THEN Err("generic_err")
    ELSE Ok(human \o Zeros(CanonicalLength - Len(human)))

\* Storage::get / Storage::set on the flat backend
get(store, key) == IF key \in DOMAIN store THEN Some(store[key]) ELSE None

set(store, key, value) ==
    [k \in (DOMAIN store) \cup {key} |-> IF k = key THEN value ELSE store[k]]

\* PrefixedStorage: the namespace, length-prefixed, before the caller's key
to_length_prefixed(namespace) == BE(Len(namespace), 2) \o namespace

prefixed_key(namespace, key) == to_length_prefixed(namespace) \o key

----------------------------------------------------------------------------
(* state.rs: keys, entities and their Bincode2 encoding *)

CONFIG_KEY == config_name
PREFIX_VIEWING_KEY == <<118, 105, 101, 119, 105, 110, 103, 107, 101, 121>>

\* a u64 read from 8 little-endian bytes; a value above 2^31 - 1 saturates
DecodeU64(b) ==
    IF b[5] = 0 /\ b[6] = 0 /\ b[7] = 0 /\ b[8] = 0 /\ b[4] < 128
    THEN UnLE(SubSeq(b, 1, 4))
    ELSE 2147483647

\* Bincode2::serialize, per entity type
\* State    { max_size: u16, reminder_count: u64, prng_seed: Vec<u8> }
\* Reminder { content: Vec<u8>, timestamp: u64 }
serialize(T, v) ==
    IF T = "State"
    THEN LE(v.max_size, 2) \o LE(v.reminder_count, 8)
         \o LE(Len(v.prng_seed), 8) \o v.prng_seed
    ELSE LE(Len(v.content), 8) \o v.content \o LE(v.timestamp, 8)

\* Bincode2::deserialize, per entity type
deserialize(T, b) ==
    IF T = "State" THEN
        IF Len(b) < 18 THEN Err("parse_err")
        ELSE LET n == DecodeU64(SubSeq(b, 11, 18)) IN
             IF n > Len(b) - 18 THEN Err("parse_err")
             ELSE Ok([max_size |-> UnLE(SubSeq(b, 1, 2)),
                      reminder_count |-> DecodeU64(SubSeq(b, 3, 10)),
                      prng_seed |-> SubSeq(b, 19, 18 + n)])
    ELSE
        IF Len(b) < 16 THEN Err("parse_err")
        ELSE LET n == DecodeU64(SubSeq(b, 1, 8)) IN
             IF n > Len(b) - 16 THEN Err("parse_err")
             ELSE Ok([content |-> SubSeq(b, 9, 8 + n),
                      timestamp |-> DecodeU64(SubSeq(b, 9 + n, 16 + n))])

\* the backend key of an owner's reminder: the canonical address itself
reminder_key(owner) == owner

\* the "viewingkey" store with one entry shared by every owner
user_key_store_shared(owner) == prefixed_key(PREFIX_VIEWING_KEY, <<>>)

\* the "viewingkey" store with its namespace prefix left out
user_key_store_unprefixed(owner) == owner

\* the backend key of an owner's entry in the "viewingkey" prefixed store
user_key_store(owner) == prefixed_key(PREFIX_VIEWING_KEY, owner)

\* save leaving alone a key that already holds a value
save_if_absent(store, key, T, value) ==
    IF key \in DOMAIN store THEN store ELSE set(store, key, serialize(T, value))

save(store, key, T, value) == set(store, key, serialize(T, value))

load(store, key, T) ==
    LET raw == get(store, key) IN
    IF raw.some THEN deserialize(T, raw.val) ELSE Err("not_found")

may_load(store, key, T) ==
    LET raw == get(store, key) IN
    IF raw.some
    THEN LET d == deserialize(T, raw.val) IN
         IF d.ok THEN Ok(Some(d.val)) ELSE d
    ELSE Ok(None)

----------------------------------------------------------------------------
(* viewing_key.rs: derivation, storage form and verification of a key *)

VIEWING_KEY_SIZE == 32

VIEWING_KEY_DOMAIN == <<107, 101, 121>>

\* ViewingKey::new: hash of the domain constant, the contract's seed, the
\* call's block height, block time and sender, and the caller's entropy,
\* handed out as lowercase hexadecimal text
ViewingKey_new(env, seed, entropy) ==
    Hex(sha_256(VIEWING_KEY_DOMAIN \o seed \o BE(env.height, 8)
                \o BE(env.time, 8) \o env.sender \o entropy))

\* ViewingKey::to_hashed: the storage form of a key
to_hashed(key) == sha_256(key)

\* comparison that looks at every byte of both inputs
ct_slice_compare(a, b) ==
    Len(a) = Len(b) /\ \A i \in 1..Len(a) : a[i] = b[i]

\* ViewingKey::check_viewing_key
check_viewing_key(key, hashed) == ct_slice_compare(to_hashed(key), hashed)

----------------------------------------------------------------------------
(* state.rs: viewing-key references *)

\* write_viewing_key keeping an owner's first reference
write_viewing_key_once(store, owner, key) ==
    IF user_key_store(owner) \in DOMAIN store THEN store
    ELSE set(store, user_key_store(owner), to_hashed(key))

\* write_viewing_key storing the key as handed out
write_viewing_key_raw(store, owner, key) ==
    set(store, user_key_store(owner), key)

write_viewing_key(store, owner, key) ==
    set(store, user_key_store(owner), to_hashed(key))

read_viewing_key(store, owner) == get(store, user_key_store(owner))

----------------------------------------------------------------------------
(* contract.rs: init *)

\* valid_max_size with the value cast to 16 bits instead of converted
valid_max_size_cast(val) ==
    IF val < 1 THEN None ELSE Some(val % 65536)

\* limit the max message size to values in 1..65535
valid_max_size(val) ==
    IF val < 1 THEN None
    ELSE IF val <= 65535 THEN Some(val) ELSE None

\* a handler's outcome: its result and the backend as it leaves it
Outcome(res, store) == [res |-> res, store |-> store]

init(store, msg) ==
    LET max_size == valid_max_size(msg.max_size) IN
    IF ~max_size.some THEN Outcome(Err("generic_err"), store)
    ELSE LET config == [max_size |-> max_size.val,
                        reminder_count |-> 0,
                        prng_seed |-> sha_256(base64_encode(msg.prng_seed))]
         IN Outcome(Ok("InitResponse"), save(store, CONFIG_KEY, "State", config))

----------------------------------------------------------------------------
(* contract.rs: handle *)

TOO_LONG == "Message is too long. Reminder not recorded."
RECORDED == "Reminder recorded!"
FOUND == "Reminder found."
NOT_FOUND == "Reminder not found."

\* try_record counting the call before it looks at the length
try_record_counting_first(store, env, reminder) ==
    LET config == load(store, CONFIG_KEY, "State") IN
    IF ~config.ok THEN Outcome(config, store)
    ELSE LET counted == save(store, CONFIG_KEY, "State",
                             [config.val EXCEPT !.reminder_count = @ + 1])
         IN
         IF Len(reminder) > config.val.max_size
         THEN Outcome(Ok([status |-> TOO_LONG]), counted)
         ELSE LET sender_address == canonical_address(env.sender) IN
              IF ~sender_address.ok THEN Outcome(sender_address, store)
              ELSE Outcome(Ok([status |-> RECORDED]),
                           save(counted, reminder_key(sender_address.val),
                                "Reminder",
                                [content |-> reminder,
                                 timestamp |-> env.time]))

\* try_record counting an owner's first reminder only
try_record_counting_owners(store, env, reminder) ==
    LET config == load(store, CONFIG_KEY, "State") IN
    IF ~config.ok THEN Outcome(config, store)
    ELSE IF Len(reminder) > config.val.max_size
    THEN Outcome(Ok([status |-> TOO_LONG]), store)
    ELSE LET sender_address == canonical_address(env.sender) IN
         IF ~sender_address.ok THEN Outcome(sender_address, store)
         ELSE LET fresh == reminder_key(sender_address.val) \notin DOMAIN store
                  s1 == save(store, reminder_key(sender_address.val),
                             "Reminder",
                             [content |-> reminder, timestamp |-> env.time])
                  s2 == IF fresh
                        THEN save(s1, CONFIG_KEY, "State",
                                  [config.val EXCEPT !.reminder_count = @ + 1])
                        ELSE s1
              IN Outcome(Ok([status |-> RECORDED]), s2)

\* try_record keeping an owner's first reminder
try_record_keeping_first(store, env, reminder) ==
    LET config == load(store, CONFIG_KEY, "State") IN
    IF ~config.ok THEN Outcome(config, store)
    ELSE IF Len(reminder) > config.val.max_size
    THEN Outcome(Ok([status |-> TOO_LONG]), store)
    ELSE LET sender_address == canonical_address(env.sender) IN
         IF ~sender_address.ok THEN Outcome(sender_address, store)
         ELSE LET fresh == reminder_key(sender_address.val) \notin DOMAIN store
                  s1 == IF fresh
                        THEN save(store, reminder_key(sender_address.val),
                                  "Reminder",
                                  [content |-> reminder,
                                   timestamp |-> env.time])
                        ELSE store
                  s2 == save(s1, CONFIG_KEY, "State",
                             [config.val EXCEPT !.reminder_count = @ + 1])
              IN Outcome(Ok([status |-> RECORDED]), s2)

\* try_record without the length test
try_record_unbounded(store, env, reminder) ==
    LET config == load(store, CONFIG_KEY, "State") IN
    IF ~config.ok THEN Outcome(config, store)
    ELSE LET sender_address == canonical_address(env.sender) IN
         IF ~sender_address.ok THEN Outcome(sender_address, store)
         ELSE LET stored_reminder == [content |-> reminder,
                                      timestamp |-> env.time]
                  s1 == save(store, reminder_key(sender_address.val), "Reminder",
                             stored_reminder)
                  s2 == save(s1, CONFIG_KEY, "State",
                             [config.val EXCEPT !.reminder_count = @ + 1])
              IN Outcome(Ok([status |-> RECORDED]), s2)

\* reminder_count is a u64; the model stays far below its wrap-around
try_record(store, env, reminder) ==
    LET config == load(store, CONFIG_KEY, "State") IN
    IF ~config.ok THEN Outcome(config, store)
    ELSE IF Len(reminder) > config.val.max_size
    THEN Outcome(Ok([status |-> TOO_LONG]), store)
    ELSE LET sender_address == canonical_address(env.sender) IN
         IF ~sender_address.ok THEN Outcome(sender_address, store)
         ELSE LET stored_reminder == [content |-> reminder,
                                      timestamp |-> env.time]
                  s1 == save(store, reminder_key(sender_address.val), "Reminder",
                             stored_reminder)
                  s2 == save(s1, CONFIG_KEY, "State",
                             [config.val EXCEPT !.reminder_count = @ + 1])
              IN Outcome(Ok([status |-> RECORDED]), s2)

\* String::from_utf8(..).ok(): the text, when the bytes are text (the
\* model's texts are ASCII)
from_utf8(bytes) ==
    IF \A i \in 1..Len(bytes) : bytes[i] < 128 THEN Some(bytes) ELSE None

\* the answer both read paths build from a may_load of the reminder
ReadAnswer(result) ==
    IF ~result.ok THEN Err("panic")
    ELSE IF result.val.some
    THEN Ok([status |-> FOUND,
             reminder |-> from_utf8(result.val.val.content),
             timestamp |-> Some(result.val.val.timestamp)])
    ELSE Ok([status |-> NOT_FOUND, reminder |-> None, timestamp |-> None])

\* try_read stamping the reminder it found with the time of the read
try_read_stamping(store, env) ==
    LET sender_address == canonical_address(env.sender) IN
    IF ~sender_address.ok THEN Outcome(sender_address, store)
    ELSE LET result == may_load(store, reminder_key(sender_address.val),
                                "Reminder")
         IN Outcome(ReadAnswer(result),
                    IF result.ok /\ result.val.some
                    THEN save(store, reminder_key(sender_address.val),
                              "Reminder",
                              [result.val.val EXCEPT !.timestamp = env.time])
                    ELSE store)

try_read(store, env) ==
    LET sender_address == canonical_address(env.sender) IN
    IF ~sender_address.ok THEN Outcome(sender_address, store)
    ELSE Outcome(ReadAnswer(may_load(store, reminder_key(sender_address.val),
                                     "Reminder")),
                 store)

\* try_generate_viewing_key also replacing the seed by the hash of the new key
try_generate_viewing_key_reseeding(store, env, entropy) ==
    LET config == load(store, CONFIG_KEY, "State") IN
    IF ~config.ok THEN Outcome(config, store)
    ELSE LET key == ViewingKey_new(env, config.val.prng_seed, entropy)
             message_sender == canonical_address(env.sender)
         IN IF ~message_sender.ok THEN Outcome(message_sender, store)
            ELSE Outcome(Ok([key |-> key]),
                         save(write_viewing_key(store, message_sender.val, key),
                              CONFIG_KEY, "State",
                              [config.val EXCEPT !.prng_seed = sha_256(key)]))

try_generate_viewing_key(store, env, entropy) ==
    LET config == load(store, CONFIG_KEY, "State") IN
    IF ~config.ok THEN Outcome(config, store)
    ELSE LET key == ViewingKey_new(env, config.val.prng_seed, entropy)
             message_sender == canonical_address(env.sender)
         IN IF ~message_sender.ok THEN Outcome(message_sender, store)
            ELSE Outcome(Ok([key |-> key]),
                         write_viewing_key(store, message_sender.val, key))

----------------------------------------------------------------------------
(* contract.rs: query *)

\* a query's outcome: its result and the number of check_viewing_key calls
Answer(res, checks) == [res |-> res, checks |-> checks]

query_stats(store) ==
    LET config == load(store, CONFIG_KEY, "State") IN
    IF ~config.ok THEN config
    ELSE Ok([reminder_count |-> config.val.reminder_count])

\* query_read loading the reminder with load, so that a missing one is an error
query_read_strict(store, address) ==
    LET sender_address == canonical_address(address) IN
    IF ~sender_address.ok THEN sender_address
    ELSE LET result == load(store, reminder_key(sender_address.val), "Reminder")
         IN IF ~result.ok THEN result ELSE ReadAnswer(Ok(Some(result.val)))

query_read(store, address) ==
    LET sender_address == canonical_address(address) IN
    IF ~sender_address.ok THEN sender_address
    ELSE ReadAnswer(may_load(store, reminder_key(sender_address.val),
                             "Reminder"))

\* QueryMsg::get_validation_params: the candidate addresses and the key
\* of an authenticated query; Read names one address
get_validation_params(msg) == [addresses |-> <<msg.address>>, key |-> msg.key]

\* the dispatch of an authenticated query once a candidate's key matched
dispatch(store, msg) ==
    IF msg.type = "Read" THEN query_read(store, msg.address)
    ELSE Err("panic")

\* the loop with the comparison left out for a candidate that has no key
RECURSIVE check_candidates_skipping(_, _, _, _, _)
check_candidates_skipping(store, addresses, key, msg, checks) ==
    IF addresses = <<>> THEN Answer(Err("unauthorized"), checks)
    ELSE LET canonical_addr == canonical_address(Head(addresses)) IN
         IF ~canonical_addr.ok THEN Answer(canonical_addr, checks)
         ELSE LET expected_key == read_viewing_key(store, canonical_addr.val)
              IN
              IF ~expected_key.some
              THEN check_candidates_skipping(store, Tail(addresses), key, msg,
                                             checks)
              ELSE IF check_viewing_key(key, expected_key.val)
              THEN Answer(dispatch(store, msg), checks + 1)
              ELSE check_candidates_skipping(store, Tail(addresses), key, msg,
                                             checks + 1)

\* the loop with every candidate compared before the first match is served
check_candidates_full_pass(store, addresses, key, msg, checks) ==
    LET n == Len(addresses)
        canon(i) == canonical_address(addresses[i])
        matches(i) ==
            /\ canon(i).ok
            /\ read_viewing_key(store, canon(i).val).some
            /\ check_viewing_key(key, read_viewing_key(store, canon(i).val).val)
    IN IF \E i \in 1..n : ~canon(i).ok THEN Answer(Err("generic_err"), checks)
       ELSE IF \E i \in 1..n : matches(i)
       THEN Answer(dispatch(store, msg), checks + n)
       ELSE Answer(Err("unauthorized"), checks + n)

\* the loop with a matching key treated like a missing one
RECURSIVE check_candidates_never(_, _, _, _, _)
check_candidates_never(store, addresses, key, msg, checks) ==
    IF addresses = <<>> THEN Answer(Err("unauthorized"), checks)
    ELSE LET canonical_addr == canonical_address(Head(addresses)) IN
         IF ~canonical_addr.ok THEN Answer(canonical_addr, checks)
         ELSE check_candidates_never(store, Tail(addresses), key, msg,
                                     checks + 1)

\* the loop with the comparison against zeros deciding for a candidate that
\* has no key
RECURSIVE check_candidates_dummy_deciding(_, _, _, _, _)
check_candidates_dummy_deciding(store, addresses, key, msg, checks) ==
    IF addresses = <<>> THEN Answer(Err("unauthorized"), checks)
    ELSE LET canonical_addr == canonical_address(Head(addresses)) IN
         IF ~canonical_addr.ok THEN Answer(canonical_addr, checks)
         ELSE LET expected_key == read_viewing_key(store, canonical_addr.val)
                  expected == IF expected_key.some THEN expected_key.val
                              ELSE Zeros(VIEWING_KEY_SIZE)
              IN
              IF check_viewing_key(key, expected)
              THEN Answer(dispatch(store, msg), checks + 1)
              ELSE check_candidates_dummy_deciding(store, Tail(addresses), key,
                                                   msg, checks + 1)

\* the loop with a malformed candidate passed over like one that has no key
RECURSIVE check_candidates_lenient(_, _, _, _, _)
check_candidates_lenient(store, addresses, key, msg, checks) ==
    IF addresses = <<>> THEN Answer(Err("unauthorized"), checks)
    ELSE LET canonical_addr == canonical_address(Head(addresses)) IN
         IF ~canonical_addr.ok
         THEN check_candidates_lenient(store, Tail(addresses), key, msg, checks)
         ELSE LET expected_key == read_viewing_key(store, canonical_addr.val)
              IN
              IF ~expected_key.some
              THEN check_candidates_lenient(store, Tail(addresses), key, msg,
                                            checks + 1)
              ELSE IF check_viewing_key(key, expected_key.val)
              THEN Answer(dispatch(store, msg), checks + 1)
              ELSE check_candidates_lenient(store, Tail(addresses), key, msg,
                                            checks + 1)

\* the loop of authenticated_queries over the candidate addresses, from
\* `checks` comparisons already made
RECURSIVE check_candidates(_, _, _, _, _)
check_candidates(store, addresses, key, msg, checks) ==
    IF addresses = <<>> THEN Answer(Err("unauthorized"), checks)
    ELSE LET canonical_addr == canonical_address(Head(addresses)) IN
         IF ~canonical_addr.ok THEN Answer(canonical_addr, checks)
         ELSE LET expected_key == read_viewing_key(store, canonical_addr.val)
              IN
              IF ~expected_key.some
              THEN \* the comparison is made against zeros, its result dropped
                   check_candidates(store, Tail(addresses), key, msg,
                       checks + (IF check_viewing_key(key,
                                        Zeros(VIEWING_KEY_SIZE))
                                 THEN 1 ELSE 1))
              ELSE IF check_viewing_key(key, expected_key.val)
              THEN Answer(dispatch(store, msg), checks + 1)
              ELSE check_candidates(store, Tail(addresses), key, msg,
                                    checks + 1)

authenticated_queries(store, msg) ==
    LET params == get_validation_params(msg) IN
    check_candidates(store, params.addresses, params.key, msg, 0)

query(store, msg) ==
    IF msg.type = "Stats" THEN Answer(query_stats(store), 0)
    ELSE authenticated_queries(store, msg)

----------------------------------------------------------------------------
(* The contract on its chain: one call at a time, each call's writes kept  *)
(* when it returns Ok and discarded when it returns Err                    *)

Senders == {alice, bob}
Addresses == {alice, bob, too_short}
MaxSizes == {-1, 0, 1, 65535, 65536, 2147483647}
Seeds == {<<115, 101, 101, 100>>}
Reminders == {<<104>>, <<104, 105>>}
Entropies == {<<49>>}

BlockTime(h) == 1600000000 + 6 * h

Env(sender) == [height |-> height, time |-> BlockTime(height), sender |-> sender]

EmptyStore == [k \in {} |-> <<>>]

\* the keys a querier may present: every key handed out so far (to any
\* sender) and the empty text
IssuedKeys == UNION {{issued[a][i] : i \in 1..Len(issued[a])} : a \in Senders}
PresentedKeys == IssuedKeys \cup {<<>>}

KeysIssued == Len(issued[alice]) + Len(issued[bob])

\* the state-changing steps taken so far
Steps == recorded + KeysIssued + height

Commit(out) == IF out.res.ok THEN out.store ELSE storage

Init ==
    /\ storage = EmptyStore
    /\ created = None
    /\ height = 0
    /\ response = [op |-> "none", input |-> <<>>, res |-> Ok(<<>>), checks |-> 0]
    /\ writes = [a \in Senders |-> None]
    /\ issued = [a \in Senders |-> <<>>]
    /\ recorded = 0

\* the host creates the contract by calling init; a failed init creates nothing
Instantiate ==
    /\ ~created.some
    /\ \E max_size \in MaxSizes, prng_seed \in Seeds :
         LET msg == [max_size |-> max_size, prng_seed |-> prng_seed]
             out == init(storage, msg)
         IN /\ storage' = Commit(out)
            /\ created' = IF out.res.ok THEN Some(msg) ELSE created
            /\ response' = [op |-> "init", input |-> msg, res |-> out.res,
                            checks |-> 0]
    /\ UNCHANGED <<height, writes, issued, recorded>>

\* the chain moves to its next block
NextBlock ==
    /\ Steps < MaxSteps
    /\ height' = height + 1
    /\ UNCHANGED <<storage, created, response, writes, issued, recorded>>

Record ==
    /\ created.some
    /\ Steps < MaxSteps
    /\ \E sender \in Senders, reminder \in Reminders :
         LET out == try_record(storage, Env(sender), reminder)
             done == out.res.ok /\ out.res.val.status = RECORDED
         IN /\ storage' = Commit(out)
            /\ response' = [op |-> "record",
                            input |-> [sender |-> sender, reminder |-> reminder],
                            res |-> out.res, checks |-> 0]
            /\ writes' = IF done
                         THEN [writes EXCEPT ![sender] =
                                 Some([content |-> reminder,
                                       timestamp |-> BlockTime(height)])]
                         ELSE writes
            /\ recorded' = IF done THEN recorded + 1 ELSE recorded
    /\ UNCHANGED <<created, height, issued>>

Read ==
    /\ created.some
    /\ \E sender \in Senders :
         LET out == try_read(storage, Env(sender))
         IN /\ storage' = Commit(out)
            /\ response' = [op |-> "read", input |-> [sender |-> sender],
                            res |-> out.res, checks |-> 0]
    /\ UNCHANGED <<created, height, writes, issued, recorded>>

GenerateViewingKey ==
    /\ created.some
    /\ Steps < MaxSteps
    /\ \E sender \in Senders, entropy \in Entropies :
         LET out == try_generate_viewing_key(storage, Env(sender), entropy)
         IN /\ storage' = Commit(out)
            /\ response' = [op |-> "generate_viewing_key",
                            input |-> [sender |-> sender, entropy |-> entropy],
                            res |-> out.res, checks |-> 0]
            /\ issued' = IF out.res.ok
                         THEN [issued EXCEPT ![sender] =
                                 Append(@, out.res.val.key)]
                         ELSE issued
    /\ UNCHANGED <<created, height, writes, recorded>>

Stats ==
    /\ created.some
    /\ LET msg == [type |-> "Stats"]
           ans == query(storage, msg)
       IN response' = [op |-> "stats", input |-> msg, res |-> ans.res,
                       checks |-> ans.checks]
    /\ UNCHANGED <<storage, created, height, writes, issued, recorded>>

AuthenticatedRead ==
    /\ created.some
    /\ \E address \in Addresses, key \in PresentedKeys :
         LET msg == [type |-> "Read", address |-> address, key |-> key]
             ans == query(storage, msg)
         IN response' = [op |-> "authenticated_read", input |-> msg,
                         res |-> ans.res, checks |-> ans.checks]
    /\ UNCHANGED <<storage, created, height, writes, issued, recorded>>

Next ==
    \/ Instantiate
    \/ NextBlock
    \/ Record
    \/ Read
    \/ GenerateViewingKey
    \/ Stats
    \/ AuthenticatedRead

Spec == Init /\ [][Next]_vars

----------------------------------------------------------------------------
(* The authentication loop on candidate lists of any length, within one    *)
(* block: the message names its first candidate, the further candidates    *)
(* follow it                                                               *)

CandidateLists ==
    {l \in UNION {[1..n -> Addresses] : n \in 1..MaxCandidates} :
        \A i, j \in 1..Len(l) : i # j => l[i] # l[j]}

AuthenticateCandidates ==
    /\ created.some
    /\ \E addresses \in CandidateLists, key \in PresentedKeys :
         LET msg == [type |-> "Read", address |-> Head(addresses), key |-> key]
             ans == check_candidates(storage, addresses, key, msg, 0)
         IN response' = [op |-> "authenticate",
                         input |-> [addresses |-> addresses, key |-> key],
                         res |-> ans.res, checks |-> ans.checks]
    /\ UNCHANGED <<storage, created, height, writes, issued, recorded>>

NextCandidates ==
    \/ Instantiate
    \/ Record
    \/ GenerateViewingKey
    \/ AuthenticateCandidates

SpecCandidates == Init /\ [][NextCandidates]_vars

----------------------------------------------------------------------------
(* Properties *)

WellFormed(address) == canonical_address(address).ok

Canonical(address) == canonical_address(address).val

\* the key an owner currently holds: the last one handed to it
CurrentKey(a) == issued[a][Len(issued[a])]

\* candidate i of a list has a stored reference that is the hash of key
Matches(store, addresses, key, i) ==
    LET expected == read_viewing_key(store, Canonical(addresses[i])) IN
    expected.some /\ expected.val = sha_256(key)

\* the positions of a list whose candidate matches key
MatchingPositions(store, addresses, key) ==
    {i \in 1..Len(addresses) : Matches(store, addresses, key, i)}

Least(S) == CHOOSE i \in S : \A j \in S : i <= j

AllWellFormed(addresses) == \A i \in 1..Len(addresses) : WellFormed(addresses[i])

Owners == Senders \cup {config_name, PREFIX_VIEWING_KEY}

\* the State the backend should hold
ExpectedConfig ==
    [max_size |-> created.val.max_size,
     reminder_count |-> recorded,
     prng_seed |-> sha_256(base64_encode(created.val.prng_seed))]

\* C2: the backend keys of Config, of every owner's Record and of every
\* owner's KeyReference are pairwise distinct, and each key holds the last
\* value written for its own kind
C2_KeysNeverCollide ==
    /\ \A a \in Owners :
         /\ reminder_key(Canonical(a)) # CONFIG_KEY
         /\ user_key_store(Canonical(a)) # CONFIG_KEY
    /\ \A a, b \in Owners :
         /\ reminder_key(Canonical(a)) # user_key_store(Canonical(b))
         /\ a # b => /\ reminder_key(Canonical(a)) # reminder_key(Canonical(b))
                     /\ user_key_store(Canonical(a))
                          # user_key_store(Canonical(b))
    /\ DOMAIN storage =
         (IF created.some THEN {CONFIG_KEY} ELSE {})
         \cup {reminder_key(Canonical(a)) : a \in {x \in Senders : writes[x].some}}
         \cup {user_key_store(Canonical(a)) :
                 a \in {x \in Senders : issued[x] # <<>>}}
    /\ created.some => storage[CONFIG_KEY] = serialize("State", ExpectedConfig)
    /\ \A a \in Senders :
         /\ writes[a].some =>
              storage[reminder_key(Canonical(a))]
                = serialize("Reminder", writes[a].val)
         /\ issued[a] # <<>> =>
              storage[user_key_store(Canonical(a))] = sha_256(CurrentKey(a))

\* one owner holds a reminder and a key reference beside the Config
C2_Witness ==
    /\ created.some
    /\ writes[alice].some
    /\ issued[alice] # <<>>
    /\ Cardinality(DOMAIN storage) = 3

\* the answer a read for owner a should give
ExpectedRead(a) ==
    IF writes[a].some
    THEN Ok([status |-> FOUND,
             reminder |-> Some(writes[a].val.content),
             timestamp |-> Some(writes[a].val.timestamp)])
    ELSE Ok([status |-> NOT_FOUND, reminder |-> None, timestamp |-> None])

ReadMsg(address, key) == [type |-> "Read", address |-> address, key |-> key]

\* C3: an authenticated read that presents the current key of identity A
\* succeeds and returns A's stored record
C3_CurrentKeyReadsOwnRecord ==
    /\ \A a \in Senders :
         issued[a] # <<>> =>
           query(storage, ReadMsg(a, CurrentKey(a))).res = ExpectedRead(a)
    /\ (/\ response.op = "authenticated_read"
        /\ response.input.address \in Senders
        /\ issued[response.input.address] # <<>>
        /\ response.input.key = CurrentKey(response.input.address))
         => response.res = ExpectedRead(response.input.address)

\* an authenticated read with the owner's current key found its reminder,
\* while the other sender holds a reminder too
C3_Witness ==
    /\ response.op = "authenticated_read"
    /\ response.input.address = alice
    /\ issued[alice] # <<>>
    /\ response.input.key = CurrentKey(alice)
    /\ writes[alice].some
    /\ writes[bob].some
    /\ response.res.ok
    /\ response.res.val.status = FOUND

Remove(store, key) == [k \in (DOMAIN store) \ {key} |-> store[k]]

WrongKey(a, key) == issued[a] = <<>> \/ key # CurrentKey(a)

\* C4: an authenticated read with an incorrect key fails with the one
\* authorization error after one comparison, and the same call on the
\* backend without that identity's key reference gives the same result and
\* the same number of comparisons; the dummy is as long as a stored hash
C4_UniformRejection ==
    /\ \A a \in Senders, k \in PresentedKeys :
         WrongKey(a, k) =>
           LET with == query(storage, ReadMsg(a, k))
               without == query(Remove(storage, user_key_store(Canonical(a))),
                                ReadMsg(a, k))
           IN /\ with = Answer(Err("unauthorized"), 1)
              /\ without = with
    /\ (/\ response.op = "authenticated_read"
        /\ response.input.address \in Senders
        /\ WrongKey(response.input.address, response.input.key))
         => /\ response.res = Err("unauthorized")
            /\ response.checks = 1
    /\ \A a \in Senders :
         issued[a] # <<>> =>
           Len(storage[user_key_store(Canonical(a))])
             = Len(Zeros(VIEWING_KEY_SIZE))

\* the same issued key was rejected for an identity that never generated a
\* key, while the other identity holds one
C4_Witness ==
    /\ response.op = "authenticated_read"
    /\ response.input.address = bob
    /\ issued[bob] = <<>>
    /\ issued[alice] # <<>>
    /\ response.input.key = CurrentKey(alice)
    /\ response.res = Err("unauthorized")
    /\ response.checks = 1

Authenticates(a, key) == query(storage, ReadMsg(a, key)).res.ok

\* C5 as stated: after a second generate_viewing_key call of an identity its
\* first key is rejected and its second key authenticates it
C5_FirstKeyInvalidated ==
    \A a \in Senders :
        Len(issued[a]) >= 2 =>
          /\ Authenticates(a, CurrentKey(a))
          /\ ~Authenticates(a, issued[a][1])

\* C5 amended: after a second generate_viewing_key call of an identity its
\* latest key authenticates it, and every earlier key that differs from the
\* latest one is rejected (two calls in one block with the same entropy
\* derive the same key, which stays valid)
C5_OnlyLatestKey ==
    \A a \in Senders :
        Len(issued[a]) >= 2 =>
          /\ query(storage, ReadMsg(a, CurrentKey(a))).res = ExpectedRead(a)
          /\ \A i \in 1..Len(issued[a]) :
               issued[a][i] # CurrentKey(a) =>
                 query(storage, ReadMsg(a, issued[a][i]))
                   = Answer(Err("unauthorized"), 1)

\* an identity generated two different keys and then presented the first
C5_Witness ==
    /\ Len(issued[alice]) = 2
    /\ issued[alice][1] # issued[alice][2]
    /\ response.op = "authenticated_read"
    /\ response.input.address = alice
    /\ response.input.key = issued[alice][1]
    /\ response.res = Err("unauthorized")

\* C6: stats reports the number of successful record calls since init
\* (which only grows)
C6_CountEqualsRecords ==
    /\ created.some =>
         query_stats(storage) = Ok([reminder_count |-> recorded])
    /\ response.op = "stats" =>
         response.res = Ok([reminder_count |-> recorded])

\* stats after one identity recorded twice
C6_Witness ==
    /\ response.op = "stats"
    /\ recorded = 2
    /\ writes[alice].some
    /\ ~writes[bob].some
    /\ response.res.val.reminder_count = 2

\* C7: a record call whose content is longer than max_size answers with the
\* "too long" status as a success and changes nothing in the backend
C7_TooLongChangesNothing ==
    [][(/\ response'.op = "record"
        /\ Len(response'.input.reminder) > created.val.max_size)
         => /\ response'.res = Ok([status |-> TOO_LONG])
            /\ storage' = storage
            /\ recorded' = recorded
            /\ writes' = writes
            /\ query_stats(storage') = query_stats(storage)]_vars

\* a too long record call of an identity that holds a reminder
C7_Witness ==
    /\ response.op = "record"
    /\ response.res = Ok([status |-> TOO_LONG])
    /\ writes[response.input.sender].some
    /\ recorded > 0

\* C8: read returns "Reminder found." with the content and the timestamp of
\* the identity's most recent successful record call
C8_ReadReturnsLastWrite ==
    /\ \A a \in Senders :
         writes[a].some => try_read(storage, Env(a)).res = ExpectedRead(a)
    /\ (response.op = "read" /\ writes[response.input.sender].some)
         => /\ response.res = ExpectedRead(response.input.sender)
            /\ response.res.val.status = FOUND

\* a read by an identity that recorded twice
C8_Witness ==
    /\ response.op = "read"
    /\ response.input.sender = alice
    /\ recorded = 2
    /\ ~writes[bob].some
    /\ response.res.ok
    /\ response.res.val.status = FOUND

\* C9: init with max_size in 1..65535 succeeds and creates the Config with
\* that max_size and reminder_count 0; with any other value it fails with
\* the validation error and creates nothing
C9_InitValidation ==
    response.op = "init" =>
      LET m == response.input.max_size
          config == [max_size |-> m, reminder_count |-> 0,
                     prng_seed |->
                       sha_256(base64_encode(response.input.prng_seed))]
      IN IF 1 <= m /\ m <= 65535
         THEN /\ response.res.ok
              /\ created.some
              /\ DOMAIN storage = {CONFIG_KEY}
              /\ load(storage, CONFIG_KEY, "State") = Ok(config)
         ELSE /\ response.res = Err("generic_err")
              /\ ~created.some
              /\ storage = EmptyStore

\* init was refused for the first value above the range
C9_Witness ==
    /\ response.op = "init"
    /\ response.input.max_size = 65536
    /\ ~response.res.ok
    /\ storage = EmptyStore

\* C10: the stored KeyReference of an owner is the hash of the key last
\* returned to it, and no value of the backend is a key as handed out
C10_OnlyHashStored ==
    /\ \A a \in Senders :
         LET ref == read_viewing_key(storage, Canonical(a)) IN
         IF issued[a] = <<>> THEN ~ref.some
         ELSE /\ ref = Some(sha_256(CurrentKey(a)))
              /\ ref.val # CurrentKey(a)
    /\ \A k \in DOMAIN storage : storage[k] \notin IssuedKeys
    /\ (response.op = "generate_viewing_key" /\ response.res.ok)
         => response.res.val.key = CurrentKey(response.input.sender)

\* generate_viewing_key returned a key whose hash is what the backend holds
C10_Witness ==
    /\ response.op = "generate_viewing_key"
    /\ response.res.ok
    /\ read_viewing_key(storage, Canonical(response.input.sender))
         = Some(sha_256(response.res.val.key))

----------------------------------------------------------------------------
(* The typed store on its own: save, load and may_load applied to entities *)
(* of both types at a few keys.  Here `writes` holds, per key, the entity  *)
(* last saved there.                                                       *)

StoreKeys == {CONFIG_KEY, canonical_address(alice).val}

StoreEntities ==
    {[T |-> "State", value |-> v] :
        v \in {[max_size |-> 1, reminder_count |-> 0, prng_seed |-> <<>>],
               [max_size |-> 65535, reminder_count |-> 258,
                prng_seed |-> sha_256(<<115>>)]}}
    \cup
    {[T |-> "Reminder", value |-> v] :
        v \in {[content |-> <<>>, timestamp |-> 0],
               [content |-> <<104, 105, 255>>, timestamp |-> BlockTime(1)]}}

InitStore ==
    /\ storage = EmptyStore
    /\ created = None
    /\ height = 0
    /\ response = [op |-> "none", input |-> <<>>, res |-> Ok(<<>>), checks |-> 0]
    /\ writes = [k \in StoreKeys |-> None]
    /\ issued = [a \in Senders |-> <<>>]
    /\ recorded = 0

StoreSave ==
    /\ \E key \in StoreKeys, e \in StoreEntities :
         /\ storage' = save(storage, key, e.T, e.value)
         /\ writes' = [writes EXCEPT ![key] = Some(e)]
         /\ response' = [op |-> "save", input |-> [key |-> key, T |-> e.T],
                         res |-> Ok(<<>>), checks |-> 0]
    /\ UNCHANGED <<created, height, issued, recorded>>

StoreLoad ==
    /\ \E key \in StoreKeys, T \in {"State", "Reminder"} :
         response' = [op |-> "load", input |-> [key |-> key, T |-> T],
                      res |-> load(storage, key, T), checks |-> 0]
    /\ UNCHANGED <<storage, created, height, writes, issued, recorded>>

StoreMayLoad ==
    /\ \E key \in StoreKeys, T \in {"State", "Reminder"} :
         response' = [op |-> "may_load", input |-> [key |-> key, T |-> T],
                      res |-> may_load(storage, key, T), checks |-> 0]
    /\ UNCHANGED <<storage, created, height, writes, issued, recorded>>

NextStore ==
    \/ StoreSave
    \/ StoreLoad
    \/ StoreMayLoad

SpecStore == InitStore /\ [][NextStore]_vars

\* C11: load and may_load at a key return the entity last saved there, as
\* saved; at a key never written load fails with NotFound and may_load
\* returns absent
C11_SaveLoadRoundTrip ==
    /\ \A key \in StoreKeys :
         IF writes[key].some
         THEN /\ load(storage, key, writes[key].val.T)
                   = Ok(writes[key].val.value)
              /\ may_load(storage, key, writes[key].val.T)
                   = Ok(Some(writes[key].val.value))
         ELSE \A T \in {"State", "Reminder"} :
                /\ load(storage, key, T) = Err("not_found")
                /\ may_load(storage, key, T) = Ok(None)
    /\ (response.op \in {"load", "may_load"}
        /\ ~writes[response.input.key].some)
         => response.res = (IF response.op = "load" THEN Err("not_found")
                            ELSE Ok(None))
    /\ (response.op = "load"
        /\ writes[response.input.key].some
        /\ writes[response.input.key].val.T = response.input.T)
         => response.res = Ok(writes[response.input.key].val.value)

\* a Reminder with content was loaded back at a key that holds it
C11_Witness ==
    /\ response.op = "load"
    /\ response.input.T = "Reminder"
    /\ writes[response.input.key].some
    /\ response.res = Ok([content |-> <<104, 105, 255>>,
                          timestamp |-> BlockTime(1)])

\* the Config a backend holds
ConfigOf(store) == load(store, CONFIG_KEY, "State")

\* the last operation was a record that wrote
RecordedNow(r) == r.op = "record" /\ r.res = Ok([status |-> RECORDED])

\* C12: once init succeeded the backend always holds a Config whose max_size
\* and prng_seed are the ones init stored, with 1 <= max_size <= 65535; a
\* step changes the Config only when it is a record that wrote, and then
\* only by adding one to reminder_count
C12_ConfigFrame ==
    [][/\ created'.some =>
            /\ ConfigOf(storage').ok
            /\ ConfigOf(storage').val.max_size = created'.val.max_size
            /\ ConfigOf(storage').val.max_size >= 1
            /\ ConfigOf(storage').val.max_size <= 65535
            /\ ConfigOf(storage').val.prng_seed
                 = sha_256(base64_encode(created'.val.prng_seed))
       /\ created.some =>
            /\ created' = created
            /\ ConfigOf(storage).ok
            /\ ConfigOf(storage').val.max_size = ConfigOf(storage).val.max_size
            /\ ConfigOf(storage').val.prng_seed = ConfigOf(storage).val.prng_seed
            /\ ConfigOf(storage').val.reminder_count
                 = ConfigOf(storage).val.reminder_count + (recorded' - recorded)
            /\ storage'[CONFIG_KEY] # storage[CONFIG_KEY] =>
                 /\ RecordedNow(response')
                 /\ ConfigOf(storage').val
                      = [ConfigOf(storage).val EXCEPT !.reminder_count = @ + 1]]_vars

\* after two records that wrote and a key generation the Config still holds
\* the initial max_size and counts two
C12_Witness ==
    /\ created.some
    /\ recorded = 2
    /\ KeysIssued = 1
    /\ response.op = "generate_viewing_key"
    /\ ConfigOf(storage) = Ok(ExpectedConfig)

\* the positions of a list whose candidate is malformed
MalformedPositions(addresses) ==
    {i \in 1..Len(addresses) : ~WellFormed(addresses[i])}

RecordOf(store, a) == may_load(store, reminder_key(Canonical(a)), "Reminder")

\* C14: every Record the backend holds decodes, and its content is at most
\* as many bytes long as the max_size of the Config the backend holds
C14_RecordsWithinMaxSize ==
    \A a \in Senders :
        /\ RecordOf(storage, a).ok
        /\ RecordOf(storage, a).val.some =>
             /\ ConfigOf(storage).ok
             /\ Len(RecordOf(storage, a).val.val.content)
                  <= ConfigOf(storage).val.max_size

\* under max_size 1 an owner holds a one-byte Record and a two-byte
\* reminder was just turned down
C14_Witness ==
    /\ created.some
    /\ ConfigOf(storage).val.max_size = 1
    /\ \E a \in Senders :
         /\ RecordOf(storage, a).val.some
         /\ Len(RecordOf(storage, a).val.val.content) = 1
    /\ response.op = "record"
    /\ Len(response.input.reminder) = 2
    /\ response.res = Ok([status |-> TOO_LONG])

\* the answer of a read that found nothing
NotFoundAnswer == Ok([status |-> NOT_FOUND, reminder |-> None, timestamp |-> None])

\* C15: a read by a sender that holds no Record, and an authenticated read
\* that presents the current key of an owner that holds no Record, both
\* succeed with the status "Reminder not found." and neither a reminder nor
\* a timestamp
C15_NotFoundIsSuccess ==
    /\ (response.op = "read"
        /\ ~RecordOf(storage, response.input.sender).val.some)
          => response.res = NotFoundAnswer
    /\ (response.op = "authenticated_read"
        /\ response.input.address \in Senders
        /\ issued[response.input.address] # <<>>
        /\ response.input.key = CurrentKey(response.input.address)
        /\ ~RecordOf(storage, response.input.address).val.some)
          => response.res = NotFoundAnswer

\* an owner with a key and no Record authenticated and was told that no
\* reminder was found, while the other owner holds a Record
C15_Witness ==
    /\ response.op = "authenticated_read"
    /\ response.input.address \in Senders
    /\ issued[response.input.address] # <<>>
    /\ response.input.key = CurrentKey(response.input.address)
    /\ ~RecordOf(storage, response.input.address).val.some
    /\ \E b \in Senders : RecordOf(storage, b).val.some
    /\ response.res.ok
    /\ response.res.val.status = NOT_FOUND

\* the KeyReference the backend holds for an owner
KeyReferenceOf(store, a) == read_viewing_key(store, Canonical(a))

\* the backend keys whose contents differ between two backends
Changed(s, t) == {k \in DOMAIN s \cup DOMAIN t : get(s, k) # get(t, k)}

\* C16: in a contract that was created, a step changes an owner's Record
\* only when it is a record by that owner, and an owner's KeyReference only
\* when it is a generate_viewing_key by that owner; a record by A touches
\* nothing but A's Record and the Config, a generate_viewing_key by A nothing
\* but A's KeyReference; nothing the backend holds is ever deleted
C16_OwnerFrame ==
    [][created.some =>
        /\ DOMAIN storage \subseteq DOMAIN storage'
        /\ \A b \in Senders :
             /\ RecordOf(storage', b) # RecordOf(storage, b) =>
                  /\ response'.op = "record"
                  /\ response'.input.sender = b
             /\ KeyReferenceOf(storage', b) # KeyReferenceOf(storage, b) =>
                  /\ response'.op = "generate_viewing_key"
                  /\ response'.input.sender = b
             /\ RecordOf(storage, b).val.some => RecordOf(storage', b).val.some
             /\ KeyReferenceOf(storage, b).some =>
                  KeyReferenceOf(storage', b).some
        /\ response'.op = "record" =>
             Changed(storage, storage')
               \subseteq {reminder_key(Canonical(response'.input.sender)),
                          CONFIG_KEY}
        /\ response'.op = "generate_viewing_key" =>
             Changed(storage, storage')
               \subseteq {user_key_store(Canonical(response'.input.sender))}]_vars

\* one owner recorded after the other owner had recorded and generated a
\* key: both Records and the other owner's KeyReference are held
C16_Witness ==
    /\ response.op = "record"
    /\ response.res = Ok([status |-> RECORDED])
    /\ \E b \in Senders \ {response.input.sender} :
         /\ RecordOf(storage, b).val.some
         /\ KeyReferenceOf(storage, b).some
         /\ RecordOf(storage, response.input.sender).val.some
         /\ ~KeyReferenceOf(storage, response.input.sender).some

\* the candidate addresses of the last authenticated call
CandidatesOf(r) ==
    IF r.op = "authenticate" THEN r.input.addresses ELSE <<r.input.address>>

\* C17: an authenticated call succeeds only if the hash of the presented key
\* is the KeyReference the backend holds for one of the call's candidates;
\* when no candidate has a KeyReference it is rejected for every key, also
\* for one whose hash is the zero bytes compared in the absent case; and the
\* current key of an owner that is not among the candidates is rejected
C17_OnlyStoredKeyAuthenticates ==
    response.op \in {"authenticated_read", "authenticate"} =>
        LET addresses == CandidatesOf(response)
            key == response.input.key
        IN /\ response.res.ok =>
                \E i \in 1..Len(addresses) :
                    /\ WellFormed(addresses[i])
                    /\ KeyReferenceOf(storage, addresses[i]) = Some(to_hashed(key))
           /\ AllWellFormed(addresses) =>
                /\ (\A i \in 1..Len(addresses) :
                        ~KeyReferenceOf(storage, addresses[i]).some)
                     => response.res = Err("unauthorized")
                /\ \A a \in Senders :
                     (/\ issued[a] # <<>>
                      /\ key = CurrentKey(a)
                      /\ \A i \in 1..Len(addresses) : addresses[i] # a)
                       => response.res = Err("unauthorized")

\* an owner that holds a Record and never generated a key was asked for
\* with the key whose hash is the zero bytes, and the call was rejected
C17_Witness ==
    /\ response.op = "authenticated_read"
    /\ response.input.address \in Senders
    /\ RecordOf(storage, response.input.address).val.some
    /\ ~KeyReferenceOf(storage, response.input.address).some
    /\ to_hashed(response.input.key) = Zeros(VIEWING_KEY_SIZE)
    /\ response.res = Err("unauthorized")

\* C18: a read, a stats query and an authenticated read leave the backend
\* as it was, whatever they answer: the Config, every owner's Record and
\* every owner's KeyReference are the same after the step as before it
C18_ReadsChangeNothing ==
    [][response'.op \in {"read", "stats", "authenticated_read"} =>
        /\ storage' = storage
        /\ ConfigOf(storage') = ConfigOf(storage)
        /\ \A a \in Senders :
             /\ RecordOf(storage', a) = RecordOf(storage, a)
             /\ KeyReferenceOf(storage', a) = KeyReferenceOf(storage, a)
        /\ writes' = writes
        /\ recorded' = recorded]_vars

\* a read found a reminder recorded in an earlier block, and the backend
\* still holds it with the time of its recording
C18_Witness ==
    /\ response.op = "read"
    /\ response.res.ok
    /\ response.res.val.status = FOUND
    /\ height > 0
    /\ RecordOf(storage, response.input.sender)
         = Ok(Some([content |-> response.res.val.reminder.val,
                    timestamp |-> BlockTime(0)]))
    /\ response.res.val.timestamp = Some(BlockTime(0))

====
